---- MODULE Spec2Model ----
(***************************************************************************)
(* A model of grr's lib/rdfvalue.py: the late-binding type registry, the   *)
(* semantic value types with their wire serialization, the Duration and    *)
(* ByteSize text forms, the arithmetic of numbers, times and durations,    *)
(* and the RDFURN / SessionID path algebra.                                *)
(*                                                                         *)
(* Python strings are modelled as sequences of one-character strings, so   *)
(* that parsing, formatting and path normalisation are computed character  *)
(* by character the way the code computes them.                            *)
(***************************************************************************)
EXTENDS Integers, Sequences, FiniteSets, TLC

VARIABLES
  \* --- the registry (module globals of rdfvalue.py and registry.py)
  classes,              \* RDFValue.classes: class name -> class object
  _LATE_BINDING_STORE,  \* target name -> list of pending callbacks
  calls,                \* the log of callback invocations, in order
  regOut,               \* what the last registry operation did
  \* --- RDFURN / SessionID objects
  urn,                  \* the RDFURN (or SessionID) object the program holds
  out,                  \* what the last URN operation was given and returned
  \* --- wire round trip of one value
  wpc, wtype, winit, wval, wire, wback,
  \* --- one Duration object
  dur, dout,
  \* --- one number-valued object (RDFInteger and its subclasses)
  num,                  \* the object the program holds: class, _value, dirty
  nout                  \* what the last operation on it was given and returned

regVars  == <<classes, _LATE_BINDING_STORE, calls, regOut>>
urnVars  == <<urn, out>>
wireVars == <<wpc, wtype, winit, wval, wire, wback>>
durVars  == <<dur, dout>>
numVars  == <<num, nout>>
vars     == <<regVars, urnVars, wireVars, durVars, numVars>>

None == "None"

(***************************************************************************)
(* The variables of a component that a specification does not exercise.    *)
(***************************************************************************)
NoOp == [op |-> None]

IdleReg  == classes = <<>> /\ _LATE_BINDING_STORE = <<>> /\ calls = <<>> /\ regOut = NoOp
IdleUrn  == urn = [cls |-> None] /\ out = NoOp
IdleWire == wpc = None /\ wtype = None /\ winit = [t |-> "none"] /\ wval = [cls |-> None] /\ wire = <<>> /\ wback = NoOp
IdleDur  == dur = [cls |-> None] /\ dout = NoOp
IdleNum  == num = [cls |-> None] /\ nout = NoOp

(***************************************************************************)
(* Python string and list primitives.                                      *)
(***************************************************************************)
Digits == <<"0", "1", "2", "3", "4", "5", "6", "7", "8", "9">>

IsDigit(c) == \E i \in 1..10 : Digits[i] = c

DigitVal(c) == (CHOOSE i \in 1..10 : Digits[i] = c) - 1

\* s[i:] and s[:i] with 0-based Python indices, 0 <= i <= len(s)
From(s, i) == SubSeq(s, i + 1, Len(s))
UpTo(s, i) == SubSeq(s, 1, i)

\* s.startswith(p)
StartsWith(s, p) == Len(s) >= Len(p) /\ SubSeq(s, 1, Len(p)) = p

\* s.find(c) as a 1-based position, 0 when c does not occur
Find(s, c) ==
  IF \E i \in 1..Len(s) : s[i] = c
    THEN CHOOSE i \in 1..Len(s) : s[i] = c /\ \A j \in 1..(i - 1) : s[j] # c
    ELSE 0

\* s.rfind(c) as a 1-based position, 0 when c does not occur
RFind(s, c) ==
  IF \E i \in 1..Len(s) : s[i] = c
    THEN CHOOSE i \in 1..Len(s) : s[i] = c /\ \A j \in (i + 1)..Len(s) : s[j] # c
    ELSE 0

\* s.split(sep, maxsplit): at most maxsplit splits, from the left; a negative
\* maxsplit splits at every separator
RECURSIVE PySplit(_, _, _)
PySplit(s, sep, maxsplit) ==
  LET i == Find(s, sep) IN
  IF maxsplit = 0 \/ i = 0
    THEN <<s>>
    ELSE <<UpTo(s, i - 1)>> \o PySplit(From(s, i), sep, maxsplit - 1)

\* sep.join(parts)
RECURSIVE PyJoin(_, _)
PyJoin(sep, parts) ==
  IF parts = <<>> THEN <<>>
  ELSE IF Len(parts) = 1 THEN parts[1]
  ELSE parts[1] \o <<sep>> \o PyJoin(sep, Tail(parts))

\* filter(None, list): the non-empty strings of the list, in order
FilterNonEmpty(l) == SelectSeq(l, LAMBDA x : x # <<>>)

\* s.rstrip(c), s.lstrip(c) and s.strip() of blanks
RECURSIVE RStrip(_, _)
RStrip(s, c) == IF s # <<>> /\ s[Len(s)] = c THEN RStrip(UpTo(s, Len(s) - 1), c) ELSE s

RECURSIVE LStrip(_, _)
LStrip(s, c) == IF s # <<>> /\ s[1] = c THEN LStrip(Tail(s), c) ELSE s

Strip(s) == LStrip(RStrip(s, " "), " ")

\* "%d" % n and str(n) of an int
RECURSIVE NatToStr(_)
NatToStr(n) == IF n < 10 THEN <<Digits[n + 1]>> ELSE NatToStr(n \div 10) \o <<Digits[(n % 10) + 1]>>

IntToStr(n) == IF n < 0 THEN <<"-">> \o NatToStr(-n) ELSE NatToStr(n)

\* the value of a non-empty string of digits
RECURSIVE DigitsToNat(_)
DigitsToNat(s) ==
  IF s = <<>> THEN 0 ELSE DigitsToNat(UpTo(s, Len(s) - 1)) * 10 + DigitVal(s[Len(s)])

AllDigits(s) == s # <<>> /\ \A i \in 1..Len(s) : IsDigit(s[i])

\* int(string): blanks around, an optional sign, then digits only.
\* [ok |-> TRUE, val |-> n], or ok |-> FALSE where Python raises ValueError.
PyInt(string) ==
  LET t    == Strip(string)
      neg  == t # <<>> /\ t[1] = "-"
      sgn  == t # <<>> /\ t[1] \in {"-", "+"}
      body == IF sgn THEN Tail(t) ELSE t
  IN IF AllDigits(body)
       THEN [ok |-> TRUE, val |-> IF neg THEN -DigitsToNat(body) ELSE DigitsToNat(body)]
       ELSE [ok |-> FALSE, val |-> 0]

(***************************************************************************)
(* The registry: RegisterLateBindingCallback and RDFValueMetaclass.        *)
(***************************************************************************)
MaxRegistrations == 3

Names     == {"Foo", "Bar"}
Classes   == {"cls1", "cls2"}        \* class objects a class statement may create
Callbacks == {"cb1", "cb2"}          \* callables handed to the registry

\* d.get(k, []) of a dict modelled as a function
Pending(store, name) == IF name \in DOMAIN store THEN store[name] ELSE <<>>

\* d.pop(k, ...): the dict without k
DictPop(d, k) == [x \in (DOMAIN d) \ {k} |-> d[x]]

\* d[k] = v
DictSet(d, k, v) == [x \in (DOMAIN d) \cup {k} |-> IF x = k THEN v ELSE d[x]]

\* registry.MetaclassRegistry.__init__: a name already registered is an
\* error, otherwise the class is entered under its name.
MetaclassRegistryInit(table, name, cls) ==
  IF name \in DOMAIN table
    THEN [ok |-> FALSE, classes |-> table]
    ELSE [ok |-> TRUE, classes |-> DictSet(table, name, cls)]

\* the invocations callback(target=cls, **kwargs) of a list of pending entries
Invocations(entries, cls) ==
  [i \in 1..Len(entries) |-> [callback |-> entries[i], target |-> cls]]

\* the number of entries pending under the names of S
RECURSIVE CountPending(_, _)
CountPending(store, S) ==
  IF S = {} THEN 0
  ELSE LET n == CHOOSE x \in S : TRUE
       IN Len(Pending(store, n)) + CountPending(store, S \ {n})

\* _LATE_BINDING_STORE.setdefault(target_name, []).append((callback, kwargs))
StoreAppend(store, target_name, callback) ==
  DictSet(store, target_name, Append(Pending(store, target_name), callback))

\* A mutant of RDFValueMetaclassInit: the callbacks are read with get(), not
\* pop(), and so stay pending.
RDFValueMetaclassInit_KeepsPending(table, store, log, name, cls) ==
  LET r == MetaclassRegistryInit(table, name, cls) IN
  IF ~r.ok
    THEN [ok |-> FALSE, classes |-> table, store |-> store, calls |-> log]
    ELSE [ok |-> TRUE, classes |-> r.classes, store |-> store,
          calls |-> log \o Invocations(Pending(store, name), cls)]

\* A mutant of RDFValueMetaclassInit: the callbacks run before the registry
\* has accepted the name.
RDFValueMetaclassInit_CallbacksFirst(table, store, log, name, cls) ==
  LET r == MetaclassRegistryInit(table, name, cls) IN
  [ok |-> r.ok, classes |-> r.classes, store |-> DictPop(store, name),
   calls |-> log \o Invocations(Pending(store, name), cls)]

\* the entries pending under the names of S, one name after the other
RECURSIVE AllPending(_, _)
AllPending(store, S) ==
  IF S = {} THEN <<>>
  ELSE LET n == CHOOSE x \in S : TRUE
       IN Pending(store, n) \o AllPending(store, S \ {n})

\* A mutant of RDFValueMetaclassInit: a class statement runs the callbacks
\* pending under every name, not only under its own.
RDFValueMetaclassInit_FiresAll(table, store, log, name, cls) ==
  LET r == MetaclassRegistryInit(table, name, cls) IN
  IF ~r.ok
    THEN [ok |-> FALSE, classes |-> table, store |-> store, calls |-> log]
    ELSE [ok |-> TRUE, classes |-> r.classes, store |-> <<>>,
          calls |-> log \o Invocations(AllPending(store, DOMAIN store), cls)]

\* RDFValueMetaclass.__init__(cls, name, bases, env_dict): the registry's
\* __init__ first (an exception of it leaves this method), then the pending
\* callbacks of the name are popped and each is called with the class.
RDFValueMetaclassInit(table, store, log, name, cls) ==
  LET r == MetaclassRegistryInit(table, name, cls) IN
  IF ~r.ok
    THEN [ok |-> FALSE, classes |-> table, store |-> store, calls |-> log]
    ELSE [ok |-> TRUE, classes |-> r.classes, store |-> DictPop(store, name),
          calls |-> log \o Invocations(Pending(store, name), cls)]

\* A call of RegisterLateBindingCallback(target_name, callback).
RegisterCallback(target_name, callback) ==
  /\ Len(calls) + CountPending(_LATE_BINDING_STORE, Names) < MaxRegistrations
  /\ _LATE_BINDING_STORE' = StoreAppend(_LATE_BINDING_STORE, target_name, callback)
  /\ regOut' = [op |-> "Register", name |-> target_name, ok |-> TRUE]
  /\ UNCHANGED <<classes, calls>>
  /\ UNCHANGED <<urnVars, wireVars, durVars, numVars>>

\* A class statement: class <name>(RDFValue) creating the class object cls.
Define(name, cls) ==
  LET r == RDFValueMetaclassInit(classes, _LATE_BINDING_STORE, calls, name, cls) IN
  /\ classes' = r.classes
  /\ _LATE_BINDING_STORE' = r.store
  /\ calls' = r.calls
  /\ regOut' = [op |-> "Define", name |-> name, ok |-> r.ok]
  /\ UNCHANGED <<urnVars, wireVars, durVars, numVars>>

InitRegistry == IdleNum /\ IdleUrn /\ IdleWire /\ IdleDur /\ IdleReg

NextRegistry ==
  \/ \E n \in Names, cb \in Callbacks : RegisterCallback(n, cb)
  \/ \E n \in Names, c \in Classes : Define(n, c)

SpecRegistry == InitRegistry /\ [][NextRegistry]_vars

\* C1: a Define of a name N invokes every callback pending for N exactly
\* once, in order, each with the class being defined, and leaves nothing
\* pending for N; no other step invokes a callback.
C1_DefineFiresPendingOnce ==
  [][ /\ \A n \in Names :
           (n \notin DOMAIN classes /\ n \in DOMAIN classes') =>
             LET p == Pending(_LATE_BINDING_STORE, n) IN
             /\ Pending(_LATE_BINDING_STORE', n) = <<>>
             /\ Len(calls') = Len(calls) + Len(p)
             /\ SubSeq(calls', 1, Len(calls)) = calls
             /\ \A i \in 1..Len(p) :
                  /\ calls'[Len(calls) + i].callback = p[i]
                  /\ calls'[Len(calls) + i].target = classes'[n]
      /\ (classes' = classes => calls' = calls)
    ]_vars

\* C1 witness: a Define has just invoked two callbacks registered before it.
C1_Witness ==
  /\ regOut.op = "Define" /\ regOut.ok
  /\ Len(calls) >= 2
  /\ calls[Len(calls)].target = classes[regOut.name]
  /\ calls[Len(calls) - 1].target = classes[regOut.name]
  /\ regOut.name \notin DOMAIN _LATE_BINDING_STORE

\* C2: a Define of a name that is already registered fails, keeps the class
\* registered first and invokes no callback; a registered class is never
\* replaced.
C2_DuplicateDefineRejected ==
  [][ /\ \A n \in DOMAIN classes : n \in DOMAIN classes' /\ classes'[n] = classes[n]
      /\ (regOut'.op = "Define" /\ regOut'.name \in DOMAIN classes) =>
           (~regOut'.ok /\ classes' = classes /\ calls' = calls)
    ]_vars

\* C2 witness: a second Define of a registered name has failed while
\* callbacks were pending for that name.
C2_Witness ==
  /\ regOut.op = "Define" /\ ~regOut.ok
  /\ regOut.name \in DOMAIN classes
  /\ Pending(_LATE_BINDING_STORE, regOut.name) # <<>>

(***************************************************************************)
(* Paths: utils.NormalizePath, utils.JoinPath, posixpath.                  *)
(***************************************************************************)
Aff4   == <<"a", "f", "f", "4">>                       \* RDFURN.scheme
Aff4C  == Aff4 \o <<":">>                              \* "aff4:"
Aff4CS == Aff4 \o <<":", "/">>                         \* "aff4:/"
Flows  == <<"/", "f", "l", "o", "w", "s">>             \* "/flows"

\* the path segments left after resolving "", "." and ".." against the
\* segments kept so far; ".." at the top level is dropped
RECURSIVE ResolveSegments(_, _)
ResolveSegments(segs, kept) ==
  IF segs = <<>> THEN kept
  ELSE LET x == Head(segs) IN
       IF x = <<>> \/ x = <<".">> THEN ResolveSegments(Tail(segs), kept)
       ELSE IF x = <<".", ".">>
         THEN ResolveSegments(Tail(segs),
                              IF kept = <<>> THEN kept ELSE UpTo(kept, Len(kept) - 1))
       ELSE ResolveSegments(Tail(segs), Append(kept, x))

\* utils.NormalizePath(path): "/" followed by the resolved segments joined
\* by "/"; the empty path is "/"
NormalizePath(path) ==
  IF path = <<>> THEN <<"/">>
  ELSE <<"/">> \o PyJoin("/", ResolveSegments(PySplit(path, "/", -1), <<>>))

\* utils.JoinPath(stem, part): part joined to stem, and the whole normalised
JoinPath(stem, part) == NormalizePath(stem \o <<"/">> \o part)

\* posixpath.basename(p): the text after the last "/"
PosixBasename(p) == From(p, RFind(p, "/"))

(***************************************************************************)
(* RDFURN, SessionID, FlowSessionID.                                       *)
(* An object is [cls, string_urn, dirty]; a method returns                 *)
(* [self |-> the receiver afterwards, ret |-> what it returns,             *)
(*  err |-> the exception it raises, or None].                             *)
(***************************************************************************)
NoObject == [cls |-> None]

Str(x)     == [t |-> "str", s |-> x]
Obj(o)     == [t |-> "urn", o |-> o]
NoneValue  == [t |-> "none"]

Returns(self, ret) == [self |-> self, ret |-> ret, err |-> None]
Raises(self, e)    == [self |-> self, ret |-> NoneValue, err |-> e]

\* RDFURN.ParseFromString(self, initializer)
RDFURN_ParseFromString(self, initializer) ==
  LET stripped == IF StartsWith(initializer, Aff4CS) THEN From(initializer, 5)
                  ELSE initializer
  IN Returns([self EXCEPT !.string_urn = NormalizePath(stripped)], NoneValue)

\* FlowSessionID.ParseFromString(self, initializer)
FlowSessionID_ParseFromString(self, initializer) ==
  RDFURN_ParseFromString(self,
    IF ~StartsWith(initializer, Aff4)
      THEN Aff4C \o Flows \o <<"/">> \o initializer
      ELSE initializer)

\* self.ParseFromString(...), by the class of self
ParseFromString(self, initializer) ==
  IF self.cls = "FlowSessionID" THEN FlowSessionID_ParseFromString(self, initializer)
  ELSE RDFURN_ParseFromString(self, initializer)

\* RDFURN.Path, RDFURN.Basename
Path(self)     == self.string_urn
Basename(self) == PosixBasename(Path(self))

\* RDFURN.__str__ / SerializeToString: "aff4:%s" % self._string_urn
RDFURN_SerializeToString(self) == Aff4C \o self.string_urn

\* A new instance: dirty is the class attribute False, _string_urn is not set
NewInstance(cls) == [cls |-> cls, string_urn |-> <<>>, dirty |-> FALSE]

\* RDFURN.__init__(self, initializer): a copy of another RDFURN's path, a
\* ValueError for None, otherwise RDFValue.__init__, which parses the string
RDFURN_init(self, initializer) ==
  IF initializer.t = "urn"
    THEN Returns([self EXCEPT !.string_urn = Path(initializer.o)], NoneValue)
  ELSE IF initializer.t = "none" THEN Raises(self, "ValueError")
  ELSE ParseFromString(self, initializer.s)

\* RDFURN.Update(self, url=None, path=None)
RDFURN_Update(self, url, path) ==
  LET a == IF url.t = "str" /\ url.s # <<>> THEN ParseFromString(self, url.s).self
           ELSE self
      b == IF path.t = "str" /\ path.s # <<>>
             THEN [a EXCEPT !.string_urn = path.s] ELSE a
  IN Returns([b EXCEPT !.dirty = TRUE], NoneValue)

\* the character classes of SessionID.ValidateID's pattern
Letters ==
  {"a", "b", "c", "d", "e", "f", "g", "h", "i", "j", "k", "l", "m",
   "n", "o", "p", "q", "r", "s", "t", "u", "v", "w", "x", "y", "z",
   "A", "B", "C", "D", "E", "F", "G", "H", "I", "J", "K", "L", "M",
   "N", "O", "P", "Q", "R", "S", "T", "U", "V", "W", "X", "Y", "Z"}

IsAlnum(c) == IsDigit(c) \/ c \in Letters

\* re.match(r"^[-0-9a-zA-Z]+:[0-9a-zA-Z]+$", id_str): neither class holds
\* ":", so the colon of a match is the only colon of the string
MatchesAllowedRe(id_str) ==
  LET i == Find(id_str, ":") IN
  /\ i > 1 /\ i < Len(id_str)
  /\ \A j \in 1..(i - 1) : IsAlnum(id_str[j]) \/ id_str[j] = "-"
  /\ \A j \in (i + 1)..Len(id_str) : IsAlnum(id_str[j])

\* SessionID.ValidateID(id_str): raises ValueError unless the pattern matches
SessionID_ValidateID(id_str) == MatchesAllowedRe(id_str)

\* "%X" % n
HexDigits == Digits \o <<"A", "B", "C", "D", "E", "F">>

RECURSIVE NatToHex(_)
NatToHex(n) ==
  IF n < 16 THEN <<HexDigits[n + 1]>> ELSE NatToHex(n \div 16) \o <<HexDigits[(n % 16) + 1]>>

\* SessionID.__init__ given an initializer that is not None: the basename of
\* an RDFURN is validated (InitializeError when it does not match), a string
\* goes to RDFURN.__init__ as it is
SessionID_init_Given(self, initializer) ==
  IF initializer.t = "urn" /\ ~SessionID_ValidateID(Basename(initializer.o))
    THEN Raises(self, "InitializeError")
    ELSE RDFURN_init(self, initializer)

\* self.__class__(initializer) for an initializer that is not None
ClassInit(cls, initializer) ==
  IF cls = "RDFURN" THEN RDFURN_init(NewInstance(cls), initializer)
  ELSE SessionID_init_Given(NewInstance(cls), initializer)

\* RDFURN.Copy(self): self.__class__(self, age=age)
RDFURN_Copy(self) ==
  LET c == ClassInit(self.cls, Obj(self)) IN
  IF c.err # None THEN Raises(self, c.err) ELSE Returns(self, Obj(c.self))

\* A mutant of RDFURN_Add: the receiver itself is updated and returned.
RDFURN_Add_InPlace(self, path) ==
  LET u == RDFURN_Update(self, NoneValue, Str(JoinPath(self.string_urn, path))).self
  IN Returns(u, Obj(u))

\* RDFURN.Add(self, path): a copy of the receiver, updated with the joined path
RDFURN_Add(self, path) ==
  LET c == RDFURN_Copy(self) IN
  IF c.err # None THEN Raises(self, c.err)
  ELSE LET result == c.ret.o
           u == RDFURN_Update(result, NoneValue, Str(JoinPath(self.string_urn, path)))
       IN Returns(self, Obj(u.self))

\* SessionID.Add(self, path): RDFURN(self).Add(path)
SessionID_Add(self, path) ==
  LET plain == RDFURN_init(NewInstance("RDFURN"), Obj(self)).self
  IN Returns(self, RDFURN_Add(plain, path).ret)

\* self.Add(path), by the class of self
Add(self, path) ==
  IF self.cls = "RDFURN" THEN RDFURN_Add(self, path) ELSE SessionID_Add(self, path)

\* DEFAULT_FLOW_QUEUE = RDFURN("F")
DEFAULT_FLOW_QUEUE == RDFURN_init(NewInstance("RDFURN"), Str(<<"F">>)).self

\* SessionID.__init__(self, initializer, base="aff4:/flows", queue, flow_name)
\* flow_name is [t |-> "int", n |-> ...] (also the PRNG's number when None
\* was given) or [t |-> "str", s |-> ...]
SessionID_init(self, initializer, queue, flow_name) ==
  IF initializer.t = "none"
    THEN LET base == RDFURN_init(NewInstance("RDFURN"), Str(Aff4C \o Flows)).self
             id   == Basename(queue) \o <<":">> \o
                       (IF flow_name.t = "int" THEN NatToHex(flow_name.n) ELSE flow_name.s)
         IN RDFURN_init(self, RDFURN_Add(base, id).ret)
    ELSE SessionID_init_Given(self, initializer)

\* RDFURN.Split(self, count=None); count is [given |-> FALSE, n |-> 0] for None
RDFURN_Split(self, count) ==
  IF count.given /\ count.n # 0
    THEN LET result == FilterNonEmpty(PySplit(self.string_urn, "/", count.n))
         IN Returns(self, result \o [i \in 1..(count.n - Len(result)) |-> <<>>])
    ELSE Returns(self, FilterNonEmpty(PySplit(self.string_urn, "/", -1)))

\* RDFValue.__getstate__: the data of the pickle is SerializeToString()
RDFValue_getstate(self) == [pickled |-> TRUE, data |-> RDFURN_SerializeToString(self)]

\* RDFURN.__setstate__(self, data): RDFValue.__setstate__ parses the data of a
\* pickle written by __getstate__ and takes any other dict as __dict__; then
\* a leading "aff4:" is taken off a path that starts with "aff4:/"
RDFURN_setstate(self, data) ==
  LET a == IF data.pickled THEN ParseFromString(self, data.data).self
           ELSE [self EXCEPT !.string_urn = data.data]
  IN Returns(IF StartsWith(a.string_urn, Aff4CS)
               THEN [a EXCEPT !.string_urn = From(a.string_urn, 5)] ELSE a,
             NoneValue)

(***************************************************************************)
(* The RDFURN state machine: a program holding one RDFURN and calling its  *)
(* methods with strings of UrnStrings.                                     *)
(***************************************************************************)
MaxSegments == 3
MaxCount    == 3

UrnStrings ==
  { <<>>,
    <<"/">>,
    <<"a">>,
    <<"b", "/", "c">>,
    <<"/", "a", "/", "/", "b">>,
    <<"/", "a", "/", ".", "/", "b">>,
    <<".", ".">>,
    Aff4CS,
    Aff4CS \o <<"a", "/", "b", "/", "c">>,
    Aff4C \o <<"a">>,
    Aff4C \o Flows \o <<"/", "H", ":", "1">>,
    <<"H", ":", "1">>,
    <<"b", " ", "d">> }

\* the path arguments of Add
AddSegments == { <<>>, <<"a">>, <<"b", "/", "c">>, <<".", ".">>, <<"/", "a", "/", "/", "b">> }

\* an old pickle holds the rendered URN of a path that was normalised
LegacyPickles == { Aff4C \o NormalizePath(x) : x \in {<<"a">>, <<"b", "/", "c">>} }

Counts == {[given |-> FALSE, n |-> 0]} \cup {[given |-> TRUE, n |-> k] : k \in 0..MaxCount}

\* flow_name arguments: a number (as the PRNG gives when None is passed) or a string
FlowNames ==
  {[t |-> "int", n |-> 26], [t |-> "str", s |-> <<"X", "1">>], [t |-> "str", s |-> <<"b", " ", "d">>]}

SessionClasses == {"SessionID", "FlowSessionID"}

\* the number of segments of a path
Segments(p) == Len(FilterNonEmpty(PySplit(p, "/", -1)))

Op(name, arg, r) == [op |-> name, arg |-> arg, err |-> r.err, ret |-> r.ret]

\* urn = RDFURN(s)
NewURN(s) ==
  LET r == RDFURN_init(NewInstance("RDFURN"), Str(s)) IN
  /\ urn' = r.self
  /\ out' = Op("RDFURN", s, r)
  /\ UNCHANGED <<regVars, wireVars, durVars, numVars>>

\* urn.ParseFromString(s)
DoParseFromString(s) ==
  LET r == ParseFromString(urn, s) IN
  /\ urn.cls # None
  /\ urn' = r.self
  /\ out' = Op("ParseFromString", s, r)
  /\ UNCHANGED <<regVars, wireVars, durVars, numVars>>

\* urn.Update(url=s)
DoUpdateUrl(s) ==
  LET r == RDFURN_Update(urn, Str(s), NoneValue) IN
  /\ urn.cls # None
  /\ urn' = r.self
  /\ out' = Op("UpdateUrl", s, r)
  /\ UNCHANGED <<regVars, wireVars, durVars, numVars>>

\* urn.Update(path=s)
DoUpdatePath(s) ==
  LET r == RDFURN_Update(urn, NoneValue, Str(s)) IN
  /\ urn.cls # None
  /\ urn' = r.self
  /\ out' = Op("UpdatePath", s, r)
  /\ UNCHANGED <<regVars, wireVars, durVars, numVars>>

\* urn.Add(s)
DoAdd(s) ==
  LET r == Add(urn, s) IN
  /\ urn.cls # None
  /\ r.err = None => Segments(r.ret.o.string_urn) <= MaxSegments
  /\ urn' = r.self
  /\ out' = Op("Add", s, r)
  /\ UNCHANGED <<regVars, wireVars, durVars, numVars>>

\* urn.Copy()
DoCopy ==
  LET r == RDFURN_Copy(urn) IN
  /\ urn.cls # None
  /\ urn' = r.self
  /\ out' = Op("Copy", <<>>, r)
  /\ UNCHANGED <<regVars, wireVars, durVars, numVars>>

\* urn = <the RDFURN the last call returned>
Rebind ==
  /\ out.op \in {"Add", "Copy"} /\ out.err = None
  /\ urn' = out.ret.o
  /\ out' = [op |-> "Rebind", arg |-> <<>>, err |-> None, ret |-> NoneValue]
  /\ UNCHANGED <<regVars, wireVars, durVars, numVars>>

\* urn = pickle.loads(pickle.dumps(urn))
DoPickle ==
  LET r == RDFURN_setstate(NewInstance(urn.cls), RDFValue_getstate(urn)) IN
  /\ urn.cls # None
  /\ urn' = r.self
  /\ out' = Op("Unpickle", <<>>, r)
  /\ UNCHANGED <<regVars, wireVars, durVars, numVars>>

\* urn = pickle.loads(<an old pickle whose __dict__ holds _string_urn = s>)
DoLegacyUnpickle(s) ==
  LET r == RDFURN_setstate(NewInstance("RDFURN"), [pickled |-> FALSE, data |-> s]) IN
  /\ urn' = r.self
  /\ out' = Op("LegacyUnpickle", s, r)
  /\ UNCHANGED <<regVars, wireVars, durVars, numVars>>

\* urn.Split(count)
DoSplit(count) ==
  LET r == RDFURN_Split(urn, count) IN
  /\ urn.cls # None
  /\ urn' = r.self
  /\ out' = Op("Split", count, r)
  /\ UNCHANGED <<regVars, wireVars, durVars, numVars>>

\* urn = cls(): a SessionID made from scratch with the default queue
NewSessionID(cls, flow_name) ==
  LET r == SessionID_init(NewInstance(cls), NoneValue, DEFAULT_FLOW_QUEUE, flow_name) IN
  /\ urn' = IF r.err = None THEN r.self ELSE urn
  /\ out' = [op |-> "SessionID", cls |-> cls, arg |-> NoneValue,
             err |-> r.err, ret |-> Obj(r.self)]
  /\ UNCHANGED <<regVars, wireVars, durVars, numVars>>

\* urn = cls(urn): a SessionID made from the RDFURN the program holds
NewSessionIDFromURN(cls) ==
  LET r == SessionID_init(NewInstance(cls), Obj(urn), DEFAULT_FLOW_QUEUE, NoneValue) IN
  /\ urn.cls # None
  /\ urn' = IF r.err = None THEN r.self ELSE urn
  /\ out' = [op |-> "SessionID", cls |-> cls, arg |-> Obj(urn),
             err |-> r.err, ret |-> Obj(r.self)]
  /\ UNCHANGED <<regVars, wireVars, durVars, numVars>>

\* urn = cls(s): a SessionID made from a string
NewSessionIDFromString(cls, s) ==
  LET r == SessionID_init(NewInstance(cls), Str(s), DEFAULT_FLOW_QUEUE, NoneValue) IN
  /\ urn' = IF r.err = None THEN r.self ELSE urn
  /\ out' = [op |-> "SessionID", cls |-> cls, arg |-> Str(s),
             err |-> r.err, ret |-> Obj(r.self)]
  /\ UNCHANGED <<regVars, wireVars, durVars, numVars>>

InitURN == IdleNum /\ IdleReg /\ IdleWire /\ IdleDur /\ IdleUrn

NextURN ==
  \/ \E s \in UrnStrings : NewURN(s)
  \/ \E s \in UrnStrings : DoParseFromString(s)
  \/ \E s \in UrnStrings : DoUpdateUrl(s)
  \/ \E s \in UrnStrings : DoUpdatePath(s)
  \/ \E s \in AddSegments : DoAdd(s)
  \/ DoCopy
  \/ Rebind
  \/ DoPickle
  \/ \E s \in LegacyPickles : DoLegacyUnpickle(s)
  \/ \E c \in Counts : DoSplit(c)
  \/ \E cls \in SessionClasses, f \in FlowNames : NewSessionID(cls, f)
  \/ \E cls \in SessionClasses : NewSessionIDFromURN(cls)
  \/ \E cls \in SessionClasses, s \in UrnStrings : NewSessionIDFromString(cls, s)

SpecURN == InitURN /\ [][NextURN]_vars

\* a path with no redundant separator and no "." or ".." segment
IsNormalized(p) ==
  \/ p = <<"/">>
  \/ /\ p # <<>>
     /\ p[Len(p)] # "/"
     /\ \A seg \in { PySplit(LStrip(<<p[1]>>, "/") \o Tail(p), "/", -1)[i] :
                       i \in 1..Len(PySplit(LStrip(<<p[1]>>, "/") \o Tail(p), "/", -1)) } :
          seg \notin { <<>>, <<".">>, <<".", ".">> }

\* C4: the path stored in a URN is normalised after every operation.
C4_StoredPathNormalized ==
  urn.cls # None => IsNormalized(urn.string_urn)

\* C5: every SessionID that construction returns has a basename matching
\* [-0-9a-zA-Z]+:[0-9a-zA-Z]+, and the only failure of a construction is an
\* InitializeError.
C5_ConstructedBasenameValid ==
  out.op = "SessionID" =>
    /\ out.err \in {None, "InitializeError"}
    /\ out.err = None => MatchesAllowedRe(Basename(out.ret.o))

\* C6: a FlowSessionID made from a bare flow identifier is the identifier
\* qualified into /flows when the qualified basename matches the pattern, and
\* is rejected when it does not.
C6_LegacyShimValidates ==
  (/\ out.op = "SessionID" /\ out.cls = "FlowSessionID"
   /\ out.arg.t = "str" /\ ~StartsWith(out.arg.s, Aff4)) =>
    LET qualified == NormalizePath(Flows \o <<"/">> \o out.arg.s) IN
    IF MatchesAllowedRe(PosixBasename(qualified))
      THEN out.err = None /\ out.ret.o.string_urn = qualified
      ELSE out.err # None

SplitExpected(p, count) ==
  LET segs == FilterNonEmpty(PySplit(p, "/", -1)) IN
  IF ~count.given THEN segs
  ELSE IF count.n = 0 THEN <<>>
  ELSE IF Len(segs) > count.n
    THEN UpTo(segs, count.n - 1) \o <<PyJoin("/", From(segs, count.n - 1))>>
  ELSE segs \o [i \in 1..(count.n - Len(segs)) |-> <<>>]

\* C8: Split(n) returns exactly n entries for every n given, 0 included, and
\* all the non-empty segments when no n is given.
C8_SplitExactlyN ==
  out.op = "Split" =>
    /\ out.ret = SplitExpected(urn.string_urn, out.arg)
    /\ out.arg.given => Len(out.ret) = out.arg.n

(***************************************************************************)
(* Duration.  An object is [cls, value]; value is self._value, in seconds. *)
(***************************************************************************)
\* Duration.DIVIDERS, an OrderedDict: the entries in the order of insertion
Duration_DIVIDERS ==
  << [label |-> "w", divider |-> 60 * 60 * 24 * 7],
     [label |-> "d", divider |-> 60 * 60 * 24],
     [label |-> "h", divider |-> 60 * 60],
     [label |-> "m", divider |-> 60],
     [label |-> "s", divider |-> 1] >>

\* Duration.DIVIDERS[key]: [found |-> TRUE, divider |-> ...], or found |-> FALSE for a KeyError
DividerOf(key) ==
  IF \E i \in 1..Len(Duration_DIVIDERS) : Duration_DIVIDERS[i].label = key
    THEN [found |-> TRUE,
          divider |-> Duration_DIVIDERS[CHOOSE i \in 1..Len(Duration_DIVIDERS) : Duration_DIVIDERS[i].label = key].divider]
    ELSE [found |-> FALSE, divider |-> 0]

\* the loop of Duration.__str__ from entry i on: the first entry whose divider
\* divides time_secs gives "%d%s" % (time_secs / divider, label); a loop that
\* ends returns None, which str() rejects with a TypeError
RECURSIVE StrLoop(_, _, _)
StrLoop(self, table, i) ==
  IF i > Len(table) THEN Raises(self, "TypeError")
  ELSE IF self.value % table[i].divider = 0
    THEN Returns(self, IntToStr(self.value \div table[i].divider) \o <<table[i].label>>)
  ELSE StrLoop(self, table, i + 1)

\* A mutant of Duration_str: the dividers are visited in the order of a plain
\* dict, here from the smallest to the largest.
Duration_str_AnyOrder(self) ==
  StrLoop(self, [i \in 1..Len(Duration_DIVIDERS) |-> Duration_DIVIDERS[Len(Duration_DIVIDERS) + 1 - i]], 1)

\* Duration.__str__(self), also Duration.SerializeToString
Duration_str(self) == StrLoop(self, Duration_DIVIDERS, 1)

\* A mutant of Duration_ParseFromHumanReadable: the unit letter is taken off
\* and the multiplicator is left at 1.
Duration_ParseFromHumanReadable_NoUnit(self, timestring) ==
  IF timestring = <<>> THEN Returns(self, NoneValue)
  ELSE LET last == timestring[Len(timestring)]
           digits == IF IsDigit(last) THEN timestring ELSE UpTo(timestring, Len(timestring) - 1)
           n == PyInt(digits)
       IN IF ~IsDigit(last) /\ ~DividerOf(last).found THEN Raises(self, "RuntimeError")
          ELSE IF ~n.ok THEN Raises(self, "InitializeError")
          ELSE Returns([self EXCEPT !.value = n.val], NoneValue)

\* Duration.ParseFromHumanReadable(self, timestring), also ParseFromString
Duration_ParseFromHumanReadable(self, timestring) ==
  IF timestring = <<>> THEN Returns(self, NoneValue)
  ELSE LET last == timestring[Len(timestring)]
           multiplicator == IF IsDigit(last) THEN 1 ELSE DividerOf(last).divider
           digits == IF IsDigit(last) THEN timestring ELSE UpTo(timestring, Len(timestring) - 1)
           n == PyInt(digits)
       IN IF ~IsDigit(last) /\ ~DividerOf(last).found THEN Raises(self, "RuntimeError")
          ELSE IF ~n.ok THEN Raises(self, "InitializeError")
          ELSE Returns([self EXCEPT !.value = n.val * multiplicator], NoneValue)

\* Duration.__init__(self, initializer) for a string, a number or None:
\* RDFInteger.__init__(None) sets 0, then the initializer decides
Duration_init(initializer) ==
  LET self == [cls |-> "Duration", value |-> 0] IN
  IF initializer.t = "str" THEN Duration_ParseFromHumanReadable(self, initializer.s)
  ELSE IF initializer.t = "int" THEN Returns([self EXCEPT !.value = initializer.n], NoneValue)
  ELSE Returns(self, NoneValue)

(***************************************************************************)
(* The Duration state machine: a program that makes a Duration, parses     *)
(* text into it and renders it.                                            *)
(***************************************************************************)
MaxMultiple == 2

Num(n) == [t |-> "int", n |-> n]

DurationInts ==
  { k * Duration_DIVIDERS[i].divider : k \in (-MaxMultiple)..MaxMultiple, i \in 1..Len(Duration_DIVIDERS) }
    \cup { 90, -90, 61, 3601, 86401, 604801 }

DigitStrings == { <<"0">>, <<"2">>, <<"9">>, <<"9", "0">>, <<"1", "2">>, <<"0", "7">> }

Suffixes == { <<>>, <<"w">>, <<"d">>, <<"h">>, <<"m">>, <<"s">>, <<"W">>, <<"D">>, <<"x">> }

DurationStrings ==
  { d \o u : d \in DigitStrings, u \in Suffixes }
    \cup { <<"-">> \o d \o u : d \in { <<"2">>, <<"9", "0">> }, u \in { <<>>, <<"w">>, <<"s">> } }
    \cup { <<>>, <<"w">>, <<"2", "x", "2">>, <<"2", ".", "5", "h">> }

\* dur = Duration(initializer)
NewDuration(initializer) ==
  LET r == Duration_init(initializer) IN
  /\ dur' = IF r.err = None THEN r.self ELSE dur
  /\ dout' = Op("Duration", initializer, r)
  /\ UNCHANGED <<regVars, urnVars, wireVars, numVars>>

\* dur.ParseFromString(s)
DoDurationParse(s) ==
  LET r == Duration_ParseFromHumanReadable(dur, s) IN
  /\ dur.cls # None
  /\ dur' = r.self
  /\ dout' = Op("ParseFromString", Str(s), r)
  /\ UNCHANGED <<regVars, urnVars, wireVars, numVars>>

\* str(dur)
DoDurationStr ==
  LET r == Duration_str(dur) IN
  /\ dur.cls # None
  /\ dur' = r.self
  /\ dout' = Op("str", NoneValue, r)
  /\ UNCHANGED <<regVars, urnVars, wireVars, numVars>>

InitDuration == IdleNum /\ IdleReg /\ IdleUrn /\ IdleWire /\ IdleDur

NextDuration ==
  \/ \E n \in DurationInts : NewDuration(Num(n))
  \/ \E s \in DurationStrings : NewDuration(Str(s))
  \/ \E s \in DurationStrings : DoDurationParse(s)
  \/ DoDurationStr

SpecDuration == InitDuration /\ [][NextDuration]_vars

\* the unit table as C9 and C10 state it
UnitLetters == <<"w", "d", "h", "m", "s">>
UnitSeconds == <<604800, 86400, 3600, 60, 1>>

\* C9: the text of a Duration is <quotient><letter> for the first unit of
\* week, day, hour, minute, second that divides the value evenly; 1209600 is
\* "2w", 172800 is "2d" and 90 is "90s".
C9_CanonicalText ==
  dout.op = "str" =>
    /\ dout.err = None
    /\ \E i \in 1..5 :
         /\ dur.value % UnitSeconds[i] = 0
         /\ \A j \in 1..(i - 1) : dur.value % UnitSeconds[j] # 0
         /\ dout.ret = IntToStr(dur.value \div UnitSeconds[i]) \o <<UnitLetters[i]>>
    /\ dur.value = 1209600 => dout.ret = <<"2", "w">>
    /\ dur.value = 172800 => dout.ret = <<"2", "d">>
    /\ dur.value = 90 => dout.ret = <<"9", "0", "s">>
    /\ dur.value = 0 => dout.ret = <<"0", "w">>
    /\ dur.value = -90 => dout.ret = <<"-", "9", "0", "s">>

\* C9 witness: a negative duration of whole days has been rendered.
C9_Witness ==
  /\ dout.op = "str" /\ dout.err = None
  /\ dur.value = -172800
  /\ dout.ret = <<"-", "2", "d">>

\* the lower-case form of a unit letter given in either case
LowerUnit(c) ==
  IF c = "W" THEN "w" ELSE IF c = "D" THEN "d" ELSE IF c = "H" THEN "h"
  ELSE IF c = "M" THEN "m" ELSE IF c = "S" THEN "s" ELSE c

\* C10: a string of digits parses as that many seconds; digits followed by a
\* unit letter, in upper or lower case, parse as the number times the unit.
C10_ParseUnitsAnyCase ==
  (dout.op = "ParseFromString" /\ dout.arg.s # <<>>) =>
    LET s    == dout.arg.s
        last == s[Len(s)]
    IN /\ PyInt(s).ok => (dout.err = None /\ dur.value = PyInt(s).val)
       /\ \A i \in 1..5 :
            (LowerUnit(last) = UnitLetters[i] /\ PyInt(UpTo(s, Len(s) - 1)).ok) =>
              /\ dout.err = None
              /\ dur.value = PyInt(UpTo(s, Len(s) - 1)).val * UnitSeconds[i]

(***************************************************************************)
(* The value types and their wire form.  An object is [cls, value] with    *)
(* value the byte string or the number in self._value; a byte string is a  *)
(* sequence of bytes, each a character or, above 127, "xNN".               *)
(***************************************************************************)
MICROSECONDS == 1000000

Uni(u) == [t |-> "unicode", s |-> u]

\* the UTF-8 bytes of a code point
Utf8(c) == IF c = "e'" THEN <<"xC3", "xA9">> ELSE <<c>>

RECURSIVE EncodeUtf8(_)
EncodeUtf8(u) == IF u = <<>> THEN <<>> ELSE Utf8(Head(u)) \o EncodeUtf8(Tail(u))

\* utils.SmartStr(string) of a unicode or a str
SmartStr(x) == IF x.t = "unicode" THEN EncodeUtf8(x.s) ELSE x.s

\* the two hexadecimal digits of a byte
HexOfByte(b) ==
  CASE b = "a" -> <<"6", "1">>
    [] b = "b" -> <<"6", "2">>
    [] b = "6" -> <<"3", "6">>
    [] b = "1" -> <<"3", "1">>
    [] b = "2" -> <<"3", "2">>
    [] b = "xC3" -> <<"c", "3">>
    [] b = "xA9" -> <<"a", "9">>

\* s.encode("hex")
RECURSIVE HexEncode(_)
HexEncode(s) == IF s = <<>> THEN <<>> ELSE HexOfByte(Head(s)) \o HexEncode(Tail(s))

\* RDFBytes.ParseFromString(self, string)
RDFBytes_ParseFromString(self, string) ==
  Returns([self EXCEPT !.value = IF string.t = "unicode" THEN SmartStr(string) ELSE string.s],
          NoneValue)

\* RDFBytes.SerializeToString(self)
RDFBytes_SerializeToString(self) == Returns(self, self.value)

\* RDFString.ParseFromString(self, string)
RDFString_ParseFromString(self, string) ==
  Returns([self EXCEPT !.value = SmartStr(string)], NoneValue)

\* RDFString.SerializeToString(self): utils.SmartStr(self._value), which is
\* str(n) for the number an RDFInteger holds
RDFString_SerializeToString(self) ==
  Returns(self, IF self.cls = "RDFString" THEN self.value ELSE IntToStr(self.value))

\* RDFInteger.ParseFromString(self, string): _value is set to 0 first; a
\* ValueError of int() is not caught
RDFInteger_ParseFromString(self, string) ==
  IF string.t = "int" THEN Returns([self EXCEPT !.value = string.n], NoneValue)
  ELSE IF string.s = <<>> THEN Returns([self EXCEPT !.value = 0], NoneValue)
  ELSE IF PyInt(string.s).ok THEN Returns([self EXCEPT !.value = PyInt(string.s).val], NoneValue)
  ELSE Raises([self EXCEPT !.value = 0], "ValueError")

\* RDFInteger.__init__(self, initializer): RDFValue.__init__ parses an
\* initializer that is not None, and RDFInteger.__init__ parses it again
RDFInteger_init(cls, initializer) ==
  LET self == [cls |-> cls, value |-> 0] IN
  IF initializer.t = "none" THEN Returns(self, NoneValue)
  ELSE LET first == RDFInteger_ParseFromString(self, initializer) IN
       IF first.err # None THEN first ELSE RDFInteger_ParseFromString(first.self, initializer)

\* RDFDatetime.converter, RDFDatetimeSeconds.converter
Converter(cls) == IF cls = "RDFDatetimeSeconds" THEN 1 ELSE MICROSECONDS

\* RDFDatetime.__init__(self, initializer); human is what dateutil's parser
\* makes of a text that is no integer: seconds since the epoch, or a ValueError
RDFDatetime_init(cls, initializer, human) ==
  LET self == [cls |-> cls, value |-> 0] IN
  IF initializer.t = "int" THEN Returns([self EXCEPT !.value = initializer.n], NoneValue)
  ELSE IF initializer.t = "str"
    THEN IF PyInt(initializer.s).ok
           THEN Returns([self EXCEPT !.value = PyInt(initializer.s).val], NoneValue)
         ELSE IF initializer.s = <<>> THEN Returns(self, NoneValue)
         ELSE IF human.ok THEN Returns([self EXCEPT !.value = human.val * Converter(cls)], NoneValue)
         ELSE Raises(self, "ValueError")
  ELSE Returns(self, NoneValue)

\* ByteSize.DIVIDERS.get(unit): 0 stands for None
ByteSize_DIVIDERS(unit) ==
  CASE unit = <<>> -> 1
    [] unit = <<"k">> -> 1000
    [] unit = <<"m">> -> 1000 * 1000
    [] unit = <<"g">> -> 1000 * 1000 * 1000
    [] unit = <<"k", "i">> -> 1024
    [] unit = <<"m", "i">> -> 1024 * 1024
    [] unit = <<"g", "i">> -> 1024 * 1024 * 1024
    [] OTHER -> 0

\* s.lower() over the letters a ByteSize text uses
LowerChar(c) ==
  CASE c = "K" -> "k" [] c = "M" -> "m" [] c = "G" -> "g" [] c = "I" -> "i"
    [] c = "B" -> "b" [] OTHER -> c

Lower(s) == [i \in 1..Len(s) |-> LowerChar(s[i])]

\* the length of the longest prefix of s made of characters of the class
RECURSIVE PrefixLen(_, _)
PrefixLen(s, class) ==
  IF s # <<>> /\ s[1] \in class THEN 1 + PrefixLen(Tail(s), class) ELSE 0

\* ByteSize.REGEX.match(text): "^([0-9.]+)([kmgi]*)b?$"
ByteSize_REGEX(text) ==
  LET n1   == PrefixLen(text, {"0", "1", "2", "3", "4", "5", "6", "7", "8", "9", "."})
      r1   == From(text, n1)
      n2   == PrefixLen(r1, {"k", "m", "g", "i"})
      r2   == From(r1, n2)
  IN [matched |-> n1 > 0 /\ (r2 = <<>> \/ r2 = <<"b">>),
      group1 |-> UpTo(text, n1), group2 |-> UpTo(r1, n2)]

\* 10 ** n
RECURSIVE Pow10(_)
Pow10(n) == IF n = 0 THEN 1 ELSE 10 * Pow10(n - 1)

\* float(value) of a text of digits and dots, as the fraction num / den; a
\* text that is no number (no digit, or two dots) is a ValueError
PyFloat(value) ==
  LET dot  == Find(value, ".")
      int  == UpTo(value, dot - 1)
      frac == From(value, dot)
  IN [ok  |-> (int \o frac) # <<>> /\ AllDigits(int \o frac),
      num |-> IF AllDigits(int \o frac) THEN DigitsToNat(int \o frac) ELSE 0,
      den |-> Pow10(Len(frac))]

\* ByteSize.ParseFromHumanReadable(self, string); the product of a float is
\* computed exactly, without the rounding of a double
ByteSize_ParseFromHumanReadable(self, string) ==
  IF string = <<>> THEN Returns(self, NoneValue)
  ELSE LET match == ByteSize_REGEX(Lower(Strip(string)))
           multiplier == ByteSize_DIVIDERS(match.group2)
           value == match.group1
       IN IF ~match.matched THEN Raises(self, "DecodeError")
          ELSE IF multiplier = 0 THEN Raises(self, "DecodeError")
          ELSE IF Find(value, ".") # 0
            THEN IF ~PyFloat(value).ok THEN Raises(self, "ValueError")
                 ELSE Returns([self EXCEPT !.value =
                                 IF multiplier % PyFloat(value).den = 0
                                   THEN PyFloat(value).num * (multiplier \div PyFloat(value).den)
                                   ELSE (PyFloat(value).num * multiplier) \div PyFloat(value).den],
                              NoneValue)
          ELSE Returns([self EXCEPT !.value = DigitsToNat(value) * multiplier], NoneValue)

\* ByteSize.__init__(self, initializer) for a string, a number, a ByteSize or
\* another RDFInteger (t = "rdf"), or None
ByteSize_init(initializer) ==
  LET self == [cls |-> "ByteSize", value |-> 0] IN
  IF initializer.t = "str" THEN ByteSize_ParseFromHumanReadable(self, initializer.s)
  ELSE IF initializer.t = "int" THEN Returns([self EXCEPT !.value = initializer.n], NoneValue)
  ELSE IF initializer.t = "rdf" THEN Returns([self EXCEPT !.value = initializer.o.value], NoneValue)
  ELSE Returns(self, NoneValue)

BytesClasses   == {"RDFBytes", "HashDigest"}
IntegerClasses == {"RDFInteger", "RDFBool", "RDFDatetime", "RDFDatetimeSeconds", "ByteSize"}

\* RDFValue.__init__(self, initializer) of the classes that do not override it
RDFValue_init(cls, initializer) ==
  LET self == [cls |-> cls, value |-> <<>>] IN
  IF initializer.t = "none" THEN Returns(self, NoneValue)
  ELSE IF cls = "RDFString" THEN RDFString_ParseFromString(self, initializer)
  ELSE RDFBytes_ParseFromString(self, initializer)

\* cls(initializer)
ValueInit(cls, initializer, human) ==
  IF cls \in {"RDFInteger", "RDFBool"} THEN RDFInteger_init(cls, initializer)
  ELSE IF cls \in {"RDFDatetime", "RDFDatetimeSeconds"} THEN RDFDatetime_init(cls, initializer, human)
  ELSE IF cls = "Duration" THEN Duration_init(initializer)
  ELSE IF cls = "ByteSize" THEN ByteSize_init(initializer)
  ELSE IF cls = "RDFURN" THEN RDFURN_init(NewInstance(cls), initializer)
  ELSE RDFValue_init(cls, initializer)

\* self.SerializeToString(), by the class of self
SerializeToString(self) ==
  IF self.cls \in BytesClasses THEN RDFBytes_SerializeToString(self)
  ELSE IF self.cls = "Duration" THEN Duration_str(self)
  ELSE IF self.cls = "RDFURN" THEN Returns(self, RDFURN_SerializeToString(self))
  ELSE RDFString_SerializeToString(self)

\* self.ParseFromString(string) of a str, by the class of self
ValueParseFromString(self, string) ==
  IF self.cls \in BytesClasses THEN RDFBytes_ParseFromString(self, Str(string))
  ELSE IF self.cls = "RDFString" THEN RDFString_ParseFromString(self, Str(string))
  ELSE IF self.cls = "Duration" THEN Duration_ParseFromHumanReadable(self, string)
  ELSE IF self.cls = "RDFURN" THEN ParseFromString(self, string)
  ELSE RDFInteger_ParseFromString(self, Str(string))

\* HashDigest.__eq__(self, other) for a str other
HashDigest_eq_str(self, other) == self.value = other \/ HexEncode(self.value) = other

\* HashDigest.__eq__(self, other) for a HashDigest other: SmartStr(other) is
\* str(other), the hex text; the str on the left of the second comparison
\* leaves it to other.__eq__
HashDigest_eq(self, other) ==
  \/ self.value = HexEncode(other.value)
  \/ HashDigest_eq_str(other, HexEncode(self.value))

\* self == other for two values of one class: RDFBytes.__eq__,
\* HashDigest.__eq__, RDFInteger.__eq__ (the number on the left leaves the
\* comparison to other.__eq__), RDFURN.__eq__
ValueEq(self, other) ==
  IF self.cls = "HashDigest" THEN HashDigest_eq(self, other)
  ELSE IF self.cls = "RDFURN" THEN self.string_urn = Path(other)
  ELSE self.value = other.value

(***************************************************************************)
(* The wire state machine: a program that makes a value of one of the      *)
(* concrete types, serializes it and parses the bytes back into a fresh    *)
(* value of the same type.                                                 *)
(***************************************************************************)
MaxInt == 3

WireTypes ==
  { "RDFBytes", "RDFString", "HashDigest", "RDFInteger", "RDFBool",
    "RDFDatetime", "RDFDatetimeSeconds", "Duration", "ByteSize", "RDFURN" }

ByteStrings ==
  { <<>>, <<"a">>, <<"a", "b">>, <<"6", "1">>, <<"1", "2">>, <<"xC3", "xA9">>, <<"a", "xC3">> }

UnicodeStrings == { <<>>, <<"a">>, <<"e'">>, <<"a", "e'">> }

IntStrings == { <<>>, <<"0">>, <<"1", "2">>, <<"-", "2">>, <<" ", "7">>, <<"a", "b">> }

ByteSizeStrings ==
  { <<>>, <<"1", "2">>, <<"1", "k", "b">>, <<"1", ".", "5", "k", "i", "b">>,
    <<"2", "M", "i", "B">>, <<"1", "g">>, <<".", "5", "k">>, <<"1", ".", ".", "2">>,
    <<"3", "x">>, <<"k", "b">>, <<"1", "2", "b">>, <<" ", "2", "K", " ">>, <<"2", "i">> }

\* what dateutil makes of a text
HumanResults == { [ok |-> FALSE, val |-> 0], [ok |-> TRUE, val |-> 0], [ok |-> TRUE, val |-> 2] }

WireInputs(type) ==
  IF type \in {"RDFBytes", "RDFString", "HashDigest"}
    THEN { Str(b) : b \in ByteStrings } \cup { Uni(u) : u \in UnicodeStrings } \cup { NoneValue }
  ELSE IF type = "RDFBool" THEN { Num(0), Num(1), NoneValue }
  ELSE IF type \in {"RDFInteger", "RDFDatetime", "RDFDatetimeSeconds"}
    THEN { Num(n) : n \in (-MaxInt)..MaxInt } \cup { Num(n * MICROSECONDS) : n \in 1..MaxInt }
           \cup { Str(b) : b \in IntStrings } \cup { NoneValue }
  ELSE IF type = "Duration"
    THEN { Num(n) : n \in DurationInts } \cup { Str(b) : b \in DurationStrings } \cup { NoneValue }
  ELSE IF type = "ByteSize"
    THEN { Num(n) : n \in (-MaxInt)..MaxInt } \cup { Num(n * 1024) : n \in 1..MaxInt }
           \cup { Str(b) : b \in ByteSizeStrings } \cup { NoneValue }
  ELSE { Str(b) : b \in UrnStrings }

\* wval = wtype(winit)
WConstruct(type, initializer, human) ==
  LET r == ValueInit(type, initializer, human) IN
  /\ wtype' = type
  /\ winit' = initializer
  /\ wpc' = IF r.err = None THEN "built" ELSE "failed"
  /\ wval' = IF r.err = None THEN r.self ELSE [cls |-> None]
  /\ wire' = <<>>
  /\ wback' = NoOp
  /\ UNCHANGED <<regVars, urnVars, durVars, numVars>>

\* wire = wval.SerializeToString()
WSerialize ==
  LET r == SerializeToString(wval) IN
  /\ wpc = "built"
  /\ wpc' = IF r.err = None THEN "serialized" ELSE "failed"
  /\ wire' = IF r.err = None THEN r.ret ELSE <<>>
  /\ UNCHANGED <<wtype, winit, wval, wback, regVars, urnVars, durVars, numVars>>

\* a fresh value of the same type: wtype(), and wtype("aff4:/") for a URN,
\* which takes no empty construction
FreshValue(type) ==
  ValueInit(type, IF type = "RDFURN" THEN Str(Aff4C \o <<"/">>) ELSE NoneValue,
            [ok |-> FALSE, val |-> 0]).self

\* wback = fresh.ParseFromString(wire)
WParse ==
  /\ wpc = "serialized"
  /\ wpc' = "parsed"
  /\ wback' = ValueParseFromString(FreshValue(wtype), wire)
  /\ UNCHANGED <<wtype, winit, wval, wire, regVars, urnVars, durVars, numVars>>

InitWire ==
  /\ IdleReg /\ IdleUrn /\ IdleDur /\ IdleNum
  /\ wpc = "start" /\ wtype = None /\ winit = NoneValue
  /\ wval = [cls |-> None] /\ wire = <<>> /\ wback = NoOp

NextWire ==
  \/ \E type \in WireTypes : \E initializer \in WireInputs(type) : \E human \in HumanResults :
       WConstruct(type, initializer, human)
  \/ WSerialize
  \/ WParse

SpecWire == InitWire /\ [][NextWire]_vars

\* C3: for every concrete value type (Bytes, String, Integer, Boolean,
\* HashDigest, DateTime, Duration, ByteSize, URN) and every value v made from
\* the integers and strings of the domain, parsing the wire serialization of
\* v with the same type succeeds and yields a value equal to v.
C3_WireRoundTrip ==
  wpc = "parsed" =>
    /\ wback.err = None
    /\ ValueEq(wback.self, wval)
    /\ ValueEq(wval, wback.self)

\* a ByteSize made from "1.5kib" went over the wire as "1536" and came back
C3_Witness ==
  /\ wpc = "parsed" /\ wtype = "ByteSize" /\ winit = Str(<<"1", ".", "5", "k", "i", "b">>)
  /\ wire = <<"1", "5", "3", "6">> /\ wback.err = None /\ wback.self.value = 1536

(***************************************************************************)
(* Number-valued objects: RDFInteger, RDFDatetime, Duration and ByteSize   *)
(* with their text forms, in-place arithmetic and dirty flag.  An object   *)
(* is [cls, value, dirty].                                                 *)
(***************************************************************************)

\* "%.1f" % (float(value) / divider) for a divider 1024 ** k: the quotient is
\* exact in a double, and the text is that quotient rounded to one decimal,
\* a tie going to the even digit.  The tenths are computed in two limbs of
\* divider / 1024 so that no intermediate exceeds the machine word.
FormatOneDecimal(value, divider) ==
  LET whole == value \div divider
      r     == value % divider
      limb  == divider \div 1024
      hi    == (r \div limb) * 10 + ((r % limb) * 10) \div limb
      lo    == ((r % limb) * 10) % limb
      t     == hi \div 1024
      rem   == (hi % 1024) * limb + lo
      up    == (rem > divider - rem) \/ (rem = divider - rem /\ t % 2 = 1)
      tenths == whole * 10 + t + (IF up THEN 1 ELSE 0)
  IN NatToStr(tenths \div 10) \o <<".">> \o NatToStr(tenths % 10)

\* ByteSize.__str__(self)
ByteSize_str(self) ==
  IF self.value > 1024 * 1024 * 1024
    THEN Returns(self, FormatOneDecimal(self.value, 1024 * 1024 * 1024) \o <<"G", "b">>)
  ELSE IF self.value > 1024 * 1024
    THEN Returns(self, FormatOneDecimal(self.value, 1024 * 1024) \o <<"M", "b">>)
  ELSE IF self.value > 1024
    THEN Returns(self, FormatOneDecimal(self.value, 1024) \o <<"K", "b">>)
  ELSE Returns(self, IntToStr(self.value) \o <<"b">>)

\* an RDFInteger (or subclass) object passed as an argument
Rdf(o) == [t |-> "rdf", o |-> o]

DatetimeClasses == {"RDFDatetime", "RDFDatetimeSeconds"}

\* cls(initializer) of a number class, with the class attribute dirty = False
NumberInit(cls, initializer, human) ==
  LET r == ValueInit(cls, initializer, human) IN
  [r EXCEPT !.self = [cls |-> cls, value |-> r.self.value, dirty |-> FALSE]]

\* self.ParseFromString(string) of a number object, by the class of self
NumberParseFromString(self, string) ==
  IF self.cls = "Duration" THEN Duration_ParseFromHumanReadable(self, string.s)
  ELSE RDFInteger_ParseFromString(self, string)

\* RDFInteger.Set(self, value)
RDFInteger_Set(self, value) ==
  IF value.t = "int" THEN Returns([self EXCEPT !.value = value.n], NoneValue)
  ELSE NumberParseFromString(self, value)

\* a & b and a | b of two non-negative ints
RECURSIVE BitAnd(_, _)
BitAnd(a, b) ==
  IF a = 0 \/ b = 0 THEN 0
  ELSE (a % 2) * (b % 2) + 2 * BitAnd(a \div 2, b \div 2)

RECURSIVE BitOr(_, _)
BitOr(a, b) ==
  IF a = 0 THEN b ELSE IF b = 0 THEN a
  ELSE (IF a % 2 = 1 \/ b % 2 = 1 THEN 1 ELSE 0) + 2 * BitOr(a \div 2, b \div 2)

\* "return self" of an in-place method that has made self into new
ReturnsSelf(new) == Returns(new, Rdf(new))

\* RDFInteger.__iand__(self, other), RDFInteger.__ior__(self, other)
RDFInteger_iand(self, other) == ReturnsSelf([self EXCEPT !.value = BitAnd(self.value, other)])
RDFInteger_ior(self, other)  == ReturnsSelf([self EXCEPT !.value = BitOr(self.value, other)])

\* self += other for an int other: RDFInteger.__iadd__, RDFDatetime.__iadd__
\* (other is in seconds), Duration.__iadd__
Number_iadd(self, other) ==
  IF self.cls \in DatetimeClasses
    THEN ReturnsSelf([self EXCEPT !.value = self.value + other * Converter(self.cls)])
    ELSE ReturnsSelf([self EXCEPT !.value = self.value + other])

\* self -= other for an int other: RDFInteger.__isub__, RDFDatetime.__isub__,
\* Duration.__isub__
Number_isub(self, other) ==
  IF self.cls \in DatetimeClasses
    THEN ReturnsSelf([self EXCEPT !.value = self.value - other * Converter(self.cls)])
    ELSE ReturnsSelf([self EXCEPT !.value = self.value - other])

\* RDFDatetime.Now(self): int(time.time() * converter); clock is time.time()
\* in whole microseconds
RDFDatetime_Now(self, clock) ==
  ReturnsSelf([self EXCEPT !.value = clock \div (MICROSECONDS \div Converter(self.cls))])

\* RDFDatetime.AsSecondsFromEpoch(self): Python 2's / on ints is the floor
RDFDatetime_AsSecondsFromEpoch(self) == self.value \div Converter(self.cls)

\* RDFDatetime.FromSecondsFromEpoch(self, value)
RDFDatetime_FromSecondsFromEpoch(self, value) ==
  ReturnsSelf([self EXCEPT !.value = value * Converter(self.cls)])

\* RDFDatetime.__sub__(self, other) for an RDFDatetime other
RDFDatetime_sub(self, other) ==
  LET r == NumberInit("Duration",
                      Num(RDFDatetime_AsSecondsFromEpoch(self) - RDFDatetime_AsSecondsFromEpoch(other)),
                      [ok |-> FALSE, val |-> 0])
  IN Returns(self, Rdf(r.self))

\* RDFValue.Copy(self) of a number object: cls(initializer=self.SerializeToString())
RDFValue_Copy(self) ==
  NumberInit(self.cls, Str(SerializeToString(self).ret), [ok |-> FALSE, val |-> 0]).self

\* Duration.Expiry(self, base_time) for an RDFDatetime base_time: the local
\* name is rebound to a copy, so the caller's object, returned here as
\* base_time, is the one that was passed
Duration_Expiry(self, base_time) ==
  LET copy == RDFValue_Copy(base_time)
      base_time_sec == RDFDatetime_AsSecondsFromEpoch(copy)
  IN [self |-> self, err |-> None, base_time |-> base_time,
      ret |-> Rdf(RDFDatetime_FromSecondsFromEpoch(copy, base_time_sec + self.value).self)]

(***************************************************************************)
(* The number state machine: a program that makes a number object, parses  *)
(* and sets it, does in-place arithmetic on it, renders it, and computes   *)
(* with times and durations.                                               *)
(***************************************************************************)
MaxNumber == 3

NumberClasses == {"RDFInteger", "RDFDatetime", "RDFDatetimeSeconds", "Duration", "ByteSize"}

\* byte counts around the thresholds of ByteSize.__str__
ByteCounts ==
  { 0, 1, 512, 1024, 1025, 1280, 1536, 1048576, 1572864, 1073741824, 1342177280, 1610612736 }

\* internal counts of an RDFDatetime: whole seconds and seconds with a
\* sub-second part
TimeCounts == { 0, 500000, 1000000, 1900000, 2100000, 3000000 }

NumberStrings ==
  { <<>>, <<"2">>, <<"-", "2">>, <<"a", "b">>, <<"2", "x">>, <<"x", "h">>, <<"2", "h">>,
    <<"1", ".", "2", ".", "3">>, <<"1", ".", "5", "G", "b">>, <<"2", "k", "b">>, <<"3", "q", "b">> }

NumberInputs(cls) ==
  { Str(b) : b \in NumberStrings } \cup { Num(n) : n \in (-MaxNumber)..MaxNumber } \cup { NoneValue }
    \cup (IF cls = "ByteSize"
            THEN { Num(n) : n \in ByteCounts }
                   \cup { Rdf([cls |-> c, value |-> n, dirty |-> FALSE]) :
                            c \in {"ByteSize", "RDFInteger"}, n \in {-1, 2} }
          ELSE IF cls = "RDFDatetime" THEN { Num(n) : n \in TimeCounts }
          ELSE {})

\* the record of a call on num: what it was given, what it returned or
\* raised, and the object as it was before the call
NumberOp(name, arg, r) ==
  [op |-> name, arg |-> arg, err |-> r.err, ret |-> r.ret, before |-> num]

\* the sizes the arithmetic of this program stays within
InRange(o) ==
  LET scale == IF o.cls = "RDFDatetime" THEN MICROSECONDS ELSE 1
  IN o.value \in (-(MaxNumber * scale))..(MaxNumber * scale)

\* num = cls(initializer)
NewNumber(cls, initializer, human) ==
  LET r == NumberInit(cls, initializer, human) IN
  /\ num' = IF r.err = None THEN r.self ELSE num
  /\ nout' = [NumberOp(cls, initializer, r) EXCEPT !.op = "new", !.before = [cls |-> cls]]
  /\ UNCHANGED <<regVars, urnVars, wireVars, durVars>>

\* a call on num that leaves r
NumberCall(name, arg, r) ==
  /\ num' = r.self
  /\ nout' = NumberOp(name, arg, r)
  /\ UNCHANGED <<regVars, urnVars, wireVars, durVars>>

\* num.ParseFromString(s)
NumberParse(s) ==
  /\ num.cls # None
  /\ NumberCall("ParseFromString", Str(s), NumberParseFromString(num, Str(s)))

\* num.Set(value)
NumberSet(value) ==
  /\ num.cls # None
  /\ NumberCall("Set", value, RDFInteger_Set(num, value))

\* num += n, num -= n
NumberIAdd(n) ==
  /\ num.cls # None /\ InRange(num) /\ InRange(Number_iadd(num, n).self)
  /\ NumberCall("iadd", Num(n), Number_iadd(num, n))

NumberISub(n) ==
  /\ num.cls # None /\ InRange(num) /\ InRange(Number_isub(num, n).self)
  /\ NumberCall("isub", Num(n), Number_isub(num, n))

\* num &= n, num |= n, on an RDFInteger that is not negative
NumberIAnd(n) ==
  /\ num.cls = "RDFInteger" /\ num.value \in 0..MaxNumber
  /\ NumberCall("iand", Num(n), RDFInteger_iand(num, n))

NumberIOr(n) ==
  /\ num.cls = "RDFInteger" /\ num.value \in 0..MaxNumber
  /\ NumberCall("ior", Num(n), RDFInteger_ior(num, n))

\* str(num): ByteSize.__str__, Duration.__str__, RDFBytes.__str__
NumberStr ==
  /\ num.cls \in {"ByteSize", "Duration", "RDFInteger"}
  /\ NumberCall("str", NoneValue,
                IF num.cls = "ByteSize" THEN ByteSize_str(num)
                ELSE IF num.cls = "Duration" THEN Duration_str(num)
                ELSE Returns(num, IntToStr(num.value)))

\* num = ByteSize(str(num)), with the text that str(num) has just returned
NumberFromText ==
  LET r == NumberInit("ByteSize", Str(nout.ret), [ok |-> FALSE, val |-> 0]) IN
  /\ num.cls = "ByteSize" /\ nout.op = "str" /\ nout.err = None
  /\ num' = IF r.err = None THEN r.self ELSE num
  /\ nout' = [NumberOp("fromtext", Str(nout.ret), r) EXCEPT !.op = "fromtext"]
  /\ UNCHANGED <<regVars, urnVars, wireVars, durVars>>

\* num.Now(), at a time of clock microseconds
NumberNow(clock) ==
  /\ num.cls \in DatetimeClasses
  /\ NumberCall("Now", Num(clock), RDFDatetime_Now(num, clock))

\* num.FromSecondsFromEpoch(value)
NumberFromSeconds(value) ==
  /\ num.cls \in DatetimeClasses
  /\ NumberCall("FromSecondsFromEpoch", Num(value), RDFDatetime_FromSecondsFromEpoch(num, value))

\* num - other, for another time of the same class
NumberSub(count) ==
  LET other == [cls |-> num.cls, value |-> count, dirty |-> FALSE] IN
  /\ num.cls \in DatetimeClasses
  /\ NumberCall("sub", Rdf(other), RDFDatetime_sub(num, other))

\* num.Expiry(base_time), for a Duration num; the record keeps the caller's
\* base_time as it is after the call
NumberExpiry(count) ==
  LET base_time == [cls |-> "RDFDatetime", value |-> count, dirty |-> FALSE]
      r == Duration_Expiry(num, base_time)
  IN /\ num.cls = "Duration" /\ InRange(num)
     /\ num' = r.self
     /\ nout' = [NumberOp("Expiry", Rdf(base_time), r) EXCEPT !.before = r.base_time]
     /\ UNCHANGED <<regVars, urnVars, wireVars, durVars>>

InitNumber == IdleReg /\ IdleUrn /\ IdleWire /\ IdleDur /\ IdleNum

NextNumber ==
  \/ \E cls \in NumberClasses : \E initializer \in NumberInputs(cls) :
       NewNumber(cls, initializer, [ok |-> FALSE, val |-> 0])
  \/ \E s \in NumberStrings : NumberParse(s)
  \/ \E s \in NumberStrings : NumberSet(Str(s))
  \/ \E n \in (-MaxNumber)..MaxNumber : NumberSet(Num(n))
  \/ \E n \in 1..MaxNumber : NumberIAdd(n)
  \/ \E n \in 1..MaxNumber : NumberISub(n)
  \/ \E n \in 0..MaxNumber : NumberIAnd(n)
  \/ \E n \in 0..MaxNumber : NumberIOr(n)
  \/ NumberStr
  \/ NumberFromText
  \/ \E clock \in TimeCounts : NumberNow(clock)
  \/ \E value \in 0..MaxNumber : NumberFromSeconds(value)
  \/ \E count \in TimeCounts : NumberSub(count)
  \/ \E count \in TimeCounts : NumberExpiry(count)

SpecNumber == InitNumber /\ [][NextNumber]_vars

\* the divider ByteSize.__str__ uses for a byte count
StrDivider(v) ==
  IF v > 1024 * 1024 * 1024 THEN 1024 * 1024 * 1024
  ELSE IF v > 1024 * 1024 THEN 1024 * 1024
  ELSE IF v > 1024 THEN 1024 ELSE 1

\* the canonical text represents v exactly: v is a whole number of tenths of
\* the unit, which for a divider 2 ** k is a multiple of 2 ** (k - 1)
RepresentedExactly(v) == StrDivider(v) = 1 \/ v % (StrDivider(v) \div 2) = 0

\* C11: parsing the canonical text of a byte count that the text represents
\* exactly gives the byte count back, as 1610612736 -> "1.5Gb" -> 1610612736.
C11_ByteSizeTextRoundTrip ==
  (nout.op = "fromtext" /\ nout.before.value >= 0 /\ RepresentedExactly(nout.before.value)) =>
    /\ nout.err = None
    /\ num.value = nout.before.value

\* C12: a ByteSize holds a non-negative byte count after every construction,
\* parse, Set and in-place arithmetic.
C12_ByteSizeNonNegative ==
  num.cls = "ByteSize" => num.value >= 0

\* the last call took a text: a construction from a string, ParseFromString,
\* or Set with a string
TookText == nout.op \in {"new", "ParseFromString", "Set", "fromtext"} /\ nout.arg.t = "str"

\* C13: a malformed text is reported as a DecodeError and as no other kind
\* of error, for Duration, ByteSize and Integer texts alike.
C13_MalformedTextIsDecodeError ==
  (TookText /\ nout.err # None) => nout.err = "DecodeError"

\* C14: a ParseFromString, or a Set with a string, that fails leaves the
\* stored value as it was before the call.
C14_FailedParseKeepsValue ==
  (nout.op \in {"ParseFromString", "Set"} /\ nout.err # None) =>
    num.value = nout.before.value

\* the calls that change a number object in place
InPlaceOps ==
  {"Set", "iadd", "isub", "iand", "ior", "Now", "FromSecondsFromEpoch", "ParseFromString"}

\* C15: after an operation that changes a value in place (Set, +=, -=, &=,
\* |=, Now, FromSecondsFromEpoch, ParseFromString on an existing value) and
\* has changed it, the dirty flag of the object is true.
C15_DirtyAfterMutation ==
  (nout.op \in InPlaceOps /\ nout.err = None /\ num.value # nout.before.value) => num.dirty

\* x / d with the remainder dropped toward zero
TruncDiv(x, d) == IF x >= 0 THEN x \div d ELSE -((-x) \div d)

\* C16: the difference of two times of one resolution is a Duration of the
\* difference of their internal counts divided by the resolution, the
\* sub-second remainder dropped (toward zero, or downward for a negative
\* difference); 2.1 s minus 1.9 s is 0 s.
C16_SubtractionTruncates ==
  nout.op = "sub" =>
    LET diff == nout.before.value - nout.arg.o.value IN
    /\ nout.err = None
    /\ nout.ret.o.cls = "Duration"
    /\ nout.ret.o.value \in { TruncDiv(diff, Converter(num.cls)), diff \div Converter(num.cls) }

\* C17: Expiry(base) is the time whose internal count is base's count plus
\* the duration's seconds times the resolution, also for a base with a
\* sub-second part, and base keeps its count.
C17_ExpiryAddsToBase ==
  nout.op = "Expiry" =>
    /\ nout.err = None
    /\ nout.ret.o.value = nout.arg.o.value + num.value * Converter(nout.arg.o.cls)
    /\ nout.before.value = nout.arg.o.value

(***************************************************************************)
(* The registry again: what a registration alone does.                     *)
(***************************************************************************)

\* C18: a callback registered for a name N is invoked only by a later
\* Define of N: a registration invokes nothing and raises nothing, also when
\* N is already defined; a Define of a name invokes only callbacks that were
\* pending for that name and leaves the callbacks of every other name
\* pending; a callback whose name is not defined afterwards stays pending.
C18_InvokedOnlyByLaterDefine ==
  [][ /\ regOut'.op = "Register" =>
           /\ regOut'.ok
           /\ calls' = calls
           /\ classes' = classes
      /\ regOut'.op = "Define" =>
           /\ \A n \in Names \ {regOut'.name} :
                Pending(_LATE_BINDING_STORE', n) = Pending(_LATE_BINDING_STORE, n)
           /\ Len(calls') <= Len(calls) + Len(Pending(_LATE_BINDING_STORE, regOut'.name))
           /\ \A i \in (Len(calls) + 1)..Len(calls') :
                \E j \in 1..Len(Pending(_LATE_BINDING_STORE, regOut'.name)) :
                  calls'[i].callback = Pending(_LATE_BINDING_STORE, regOut'.name)[j]
      /\ \A n \in Names :
           (Pending(_LATE_BINDING_STORE, n) # <<>> /\ Pending(_LATE_BINDING_STORE', n) = <<>>) =>
             (regOut'.op = "Define" /\ regOut'.name = n /\ regOut'.ok)
    ]_vars

\* C18 witness: a callback was registered for a name that was already
\* defined, the other name has been defined since, and nothing has been
\* invoked: the callback is still pending.
C18_Witness ==
  /\ regOut.op = "Define" /\ regOut.ok
  /\ calls = <<>>
  /\ \E n \in Names \ {regOut.name} :
       n \in DOMAIN classes /\ Pending(_LATE_BINDING_STORE, n) # <<>>
====
